---- MODULE Spec2Model ----
(***************************************************************************)
(* Model of the sandboxed test-execution engine of TestSphere-AI           *)
(* (src/backend/utils/docker_executor.py).  One job is followed from the   *)
(* call of execute_tests_in_docker to its return (or to the exception it   *)
(* lets escape).  Text is modelled by the features the code reads from it: *)
(* source/test code by the markers the detector and the pipelines search   *)
(* for, container output by a sequence of line tokens.                     *)
(***************************************************************************)
EXTENDS Naturals, Integers, Sequences, FiniteSets, TLC

VARIABLES
    req,            \* the arguments of execute_tests_in_docker and the deployment
    container_name, \* the name given to the job's container
    pc,             \* position of the call
    temp_dir,       \* "None" or the path of the job's working directory
    dir_exists,     \* whether that directory exists on disk
    files,          \* names of the files written below the working directory
    docker_cmd,     \* the docker run command line that was built
    container,      \* state of the job's container
    kills,          \* container names passed to `docker kill`, in order
    exc,            \* the exception in flight ("none" when there is none)
    detected_language, \* value of _detect_language ("None" before detection)
    merged_requirements, \* the Python pipeline's merged requirements
    framework,      \* the JavaScript pipeline's test framework
    log,            \* events written to the logger
    result,         \* the dict returned to the caller
    call,           \* a helper function applied on its own: arguments and value
    jobs,           \* concurrent calls of execute_tests_in_docker, by caller
    daemon,         \* the containers the docker daemon is running
    volume,         \* the deployment and the working directories on disk
    _sse_connections,  \* progress_tracker: test_id -> the queue registered for it
    event_queues,   \* the queue.Queue objects created so far, by identity
    streams,        \* the SSE response generators, by client
    tracker,        \* the events handed to send_progress_event so far
    row,            \* queue_routes: the test_queue_items row of the item
    patches,        \* the PATCH /test-items/<id>/status requests, by request
    retry           \* retry.py: one call of a wrapper of retry_with_backoff

\* The state of the one job followed step by step.
jobvars == <<req, container_name, pc, temp_dir, dir_exists, files, docker_cmd, container,
             kills, exc, detected_language, merged_requirements, framework, log, result>>

\* The state used when helpers are applied on their own and when several
\* jobs run side by side.
aux == <<call, jobs, daemon, volume>>

\* The state of the web service around the engine.
ssevars == <<_sse_connections, event_queues, streams, tracker>>
queuevars == <<row, patches>>
svc == <<ssevars, queuevars, retry>>

vars == <<jobvars, aux, svc>>

\* ---------------------------------------------------------------- bounds
MaxOutLines == 2        \* lines of container output handed to the result parsers
MaxReports == 1         \* surefire report files per run
MaxTestsPerReport == 2  \* tests declared by one surefire report
MaxJsonTests == 1       \* per-test records in a Jest/Mocha JSON report

\* ---------------------------------------------------------------- helpers
RECURSIVE SeqsUpTo(_, _)
SeqsUpTo(S, n) ==
    IF n = 0 THEN {<<>>}
    ELSE LET P == SeqsUpTo(S, n - 1)
         IN  P \cup {Append(s, x) : s \in {q \in P : Len(q) = n - 1}, x \in S}

Range(s) == {s[i] : i \in 1..Len(s)}

\* ---------------------------------------------------------------- inputs
None == "None"

\* Values of the `language` argument (None is the absent hint).
DeclaredLanguages ==
    {None, "python", "java", "javascript", "js", "typescript", "ts", "ruby"}

\* A (source_code, test_code) pair, described by what the code searches in it.
\*   ts, pubclass, javaimp, jscalls : markers read by _detect_language
\*       ("public class" written with a blank contains the marker "public ",
\*       so it sets ts as well; "public<TAB>class" does not)
\*   fw_jasmine, fw_mocha, fw_describe_it, fw_jest : markers read by the
\*       framework heuristics of execute_javascript_tests
\*   test_parses  : ast.parse(test_code) succeeds
\*   test_imports : modules imported by the test, in textual order
\*   bundle       : the files of a "# File:" bundle, <<>> for a single file
Sample(name, det, fw, parses, imports, bundle) ==
    [name |-> name,
     ts |-> det[1], pubclass |-> det[2], javaimp |-> det[3], jscalls |-> det[4],
     fw_jasmine |-> fw[1], fw_mocha |-> fw[2], fw_describe_it |-> fw[3], fw_jest |-> fw[4],
     test_parses |-> parses, test_imports |-> imports, bundle |-> bundle]

NoFw == <<FALSE, FALSE, FALSE, FALSE>>
NoDet == <<FALSE, FALSE, FALSE, FALSE>>

CodeSamples ==
    { Sample("py_plain", NoDet, NoFw, TRUE, <<"os", "source">>, <<>>),
      Sample("py_selfcontained", NoDet, NoFw, TRUE, <<"os">>, <<>>),
      Sample("py_numpy", NoDet, NoFw, TRUE, <<"yaml", "numpy", "os">>, <<>>),
      Sample("py_broken", NoDet, NoFw, FALSE, <<>>, <<>>),
      Sample("py_bundle", NoDet, NoFw, TRUE, <<"os", "database">>,
             << [fname |-> "database.py", imports |-> <<"os">>] >>),
      Sample("py_bundle_pkg", NoDet, NoFw, TRUE, <<"models", "numpy">>,
             << [fname |-> "models/user.py", imports |-> <<"PIL">>] >>),
      Sample("java_junit", <<TRUE, TRUE, TRUE, FALSE>>, NoFw, FALSE, <<>>, <<>>),
      Sample("java_tab_class", <<FALSE, TRUE, TRUE, FALSE>>, NoFw, FALSE, <<>>, <<>>),
      Sample("js_jest", <<FALSE, FALSE, FALSE, TRUE>>, <<FALSE, FALSE, TRUE, TRUE>>,
             FALSE, <<>>, <<>>),
      Sample("js_mocha", <<FALSE, FALSE, FALSE, TRUE>>, <<FALSE, TRUE, TRUE, FALSE>>,
             FALSE, <<>>, <<>>),
      Sample("js_jasmine", <<FALSE, FALSE, FALSE, TRUE>>, <<TRUE, FALSE, TRUE, FALSE>>,
             FALSE, <<>>, <<>>),
      Sample("ts_describe_it", <<TRUE, FALSE, FALSE, TRUE>>, <<FALSE, FALSE, TRUE, FALSE>>,
             FALSE, <<>>, <<>>) }

ExecutionModes == {"unit", "integration"}

\* The config dict: the keys the engine reads.
ConfigFrameworks == {"", "jest", "mocha", "jasmine"}

\* An Optional[str] holding a requirements text: its lines, or None.
Text(lines) == [is_none |-> FALSE, lines |-> lines]
NoneText == [is_none |-> TRUE, lines |-> <<>>]

\* The requirements argument.
UserRequirements == {NoneText, Text(<<"Flask-Cors">>)}

\* config.get("executor_type"): absent, a key of the image mapping, or
\* another string.
ExecutorTypes ==
    {None, "python-basic", "python-web", "java-basic", "javascript-basic", "gpu"}

\* The arguments every pipeline reads, and the deployment (whether both
\* SHARED_WORK_DIR and DOCKER_VOLUME_NAME are set), for the code samples
\* `samples` and the executor types `types`.
RequestsWith(samples, types) ==
    [language : DeclaredLanguages, code : samples,
     execution_mode : ExecutionModes, allow_network : BOOLEAN,
     env_vars : BOOLEAN, named_volume : BOOLEAN, executor_type : types]

\* The requests followed to the end of the call: no image override.
Requests == RequestsWith(CodeSamples, {None})

\* ---------------------------------------------------------------- image selection
\* Lines 69-75: the images an executor_type names.
mapping(executor_type) ==
    CASE executor_type = "python-basic" -> "genaiqa/python-basic:latest"
      [] executor_type = "python-web" -> "genaiqa/python-web:latest"
      [] executor_type = "java-basic" -> "genaiqa/java-basic:latest"
      [] executor_type = "javascript-basic" -> "genaiqa/javascript-basic:latest"
      [] OTHER -> "genaiqa/python-basic:latest"

\* Line 85: the combined code mentions flask, requests, httpx or fastapi.
UsesWebDeps(code) ==
    \E i \in 1..Len(code.test_imports) :
        code.test_imports[i] \in {"flask", "requests", "httpx", "fastapi"}

\* _select_executor_image(source_code, test_code, language, config)
_select_executor_image(code, language, executor_type) ==
    IF executor_type # None THEN mapping(executor_type)
    ELSE IF language = "java" THEN "genaiqa/java-basic:latest"
    ELSE IF language \in {"javascript", "typescript"} THEN "genaiqa/javascript-basic:latest"
    ELSE IF UsesWebDeps(code) THEN "genaiqa/python-web:latest"
    ELSE "genaiqa/python-basic:latest"

\* ---------------------------------------------------------------- detection
\* _detect_language(source_code, test_code, language)
_detect_language(code, language) ==
    LET lang == IF language = None THEN "" ELSE language
    IN  IF lang \in {"python", "java"} THEN lang
        ELSE IF lang = "typescript" \/ lang = "ts" \/ code.ts THEN "typescript"
        ELSE IF lang \in {"javascript", "js"} THEN "javascript"
        ELSE IF lang # "" THEN lang
        ELSE IF code.pubclass /\ code.javaimp THEN "java"
        ELSE IF code.jscalls THEN (IF code.ts THEN "typescript" ELSE "javascript")
        ELSE "python"

\* ---------------------------------------------------------------- requirements
\* sorted() order of the module names that occur in the samples.
SortedModules == <<"PIL", "database", "models", "numpy", "os", "source", "user", "yaml">>

_STDLIB_MODULES == {"os"}

_IMPORT_TO_PIP(mod) ==
    CASE mod = "PIL" -> "Pillow"
      [] mod = "yaml" -> "PyYAML"
      [] OTHER -> mod

\* str.lower() and str.strip() on the requirement lines of the model.
Lower(line) ==
    CASE line = "Flask-Cors" -> "flask-cors"
      [] line = "Pillow" -> "pillow"
      [] line = "PyYAML" -> "pyyaml"
      [] OTHER -> line

IsBlank(line) == line = ""
IsComment(line) == line = "# pinned"

RECURSIVE MapPip(_)
MapPip(mods) ==
    IF mods = <<>> THEN <<>>
    ELSE <<_IMPORT_TO_PIP(Head(mods))>> \o MapPip(Tail(mods))

\* _auto_detect_pip_requirements(test_code, exclude): the lines of the
\* returned text ("" is the text without lines).
_auto_detect_pip_requirements(parses, imports, exclude) ==
    IF ~parses THEN Text(<<>>)
    ELSE LET top_level_imports == Range(imports)
             Keep(mod) == /\ mod \in top_level_imports
                          /\ mod \notin _STDLIB_MODULES
                          /\ mod \notin exclude
         IN  Text(MapPip(SelectSeq(SortedModules, Keep)))

RECURSIVE AutoLines(_, _)
AutoLines(lines, combined) ==
    IF lines = <<>> THEN <<>>
    ELSE LET line == Head(lines)
         IN  IF ~IsBlank(line) /\ Lower(line) \notin combined
             THEN <<line>> \o AutoLines(Tail(lines), combined \cup {Lower(line)})
             ELSE AutoLines(Tail(lines), combined)

\* _merge_requirements(user_req, auto_req); auto_req must not be None
\* (auto_req.splitlines() raises AttributeError on None, see MergeRaises).
_merge_requirements(user_req, auto_req) ==
    LET user_lines == user_req.lines
        combined == {Lower(user_lines[i]) : i \in
                        {j \in 1..Len(user_lines) :
                            ~IsBlank(user_lines[j]) /\ ~IsComment(user_lines[j])}}
        NonBlank(l) == ~IsBlank(l)
        all_lines == SelectSeq(user_lines, NonBlank) \o AutoLines(auto_req.lines, combined)
    IN  IF all_lines # <<>> THEN Text(all_lines) ELSE NoneText

MergeRaises(user_req, auto_req) == auto_req.is_none

\* os.path.splitext(os.path.basename(fname))[0]
Basename(fname) ==
    CASE fname = "database.py" -> "database"
      [] fname = "models/user.py" -> "user"
      [] OTHER -> fname

\* Lines 1665-1676: the requirement texts the Python pipeline computes.
\* auto_req is folded over the bundle's files; the fold stops with an
\* AttributeError as soon as _merge_requirements is handed None.
RECURSIVE FoldBundle(_, _, _)
FoldBundle(auto_req, bundle, local_modules) ==
    IF bundle = <<>> THEN [raised |-> FALSE, auto_req |-> auto_req]
    ELSE LET extra == _auto_detect_pip_requirements(TRUE, Head(bundle).imports, local_modules)
         IN  FoldBundle(_merge_requirements(auto_req, extra), Tail(bundle), local_modules)

PyRequirements(code, requirements) ==
    LET local_modules == {Basename(code.bundle[i].fname) : i \in 1..Len(code.bundle)}
        auto0 == _auto_detect_pip_requirements(code.test_parses, code.test_imports, local_modules)
        folded == FoldBundle(auto0, code.bundle, local_modules)
    IN  IF MergeRaises(requirements, folded.auto_req)
        THEN [raised |-> TRUE, merged |-> NoneText]
        ELSE [raised |-> FALSE, merged |-> _merge_requirements(requirements, folded.auto_req)]

\* ---------------------------------------------------------------- container output
ExitCodes == {0, 1}

\* stdout / stderr of the Python and Java containers: no line or one line.
PlainTexts == {<<>>, <<"text">>}

\* One surefire XML file: unreadable, or the counts its root element declares.
ReportFiles ==
    {[parses |-> FALSE, tests |-> 0, failures |-> 0, errors |-> 0, skipped |-> 0]} \cup
    {r \in [parses : {TRUE}, tests : 0..MaxTestsPerReport, failures : 0..1,
            errors : 0..1, skipped : 0..1] :
        r.failures + r.errors + r.skipped <= r.tests}

\* target/surefire-reports after the run: absent, or a directory of files.
Surefire ==
    {[exists |-> FALSE, reports |-> <<>>]} \cup
    {[exists |-> TRUE, reports |-> rs] : rs \in SeqsUpTo(ReportFiles, MaxReports)}

PyOutputs == [returncode : ExitCodes, stdout : PlainTexts, stderr : PlainTexts]

JavaOutputs ==
    [returncode : ExitCodes, stdout : PlainTexts, stderr : PlainTexts,
     surefire : Surefire]

\* Lines of the JavaScript container's output (npm test 2>&1):
\*   echo   : npm's echo of the test script, "> jest --json ... ; echo
\*            '===..._JSON_START===' ; cat ... || echo '{}' ; echo
\*            '===..._JSON_END==='" (holds both delimiter texts, start first)
\*   start, end : the delimiter lines printed by the script
\*   json   : the framework's JSON report on one line
\*   braces : the line {}
\*   pass, fail   : a line that begins with a pass / fail glyph
\*   ipass, ifail : the same, indented
\*   detail : an indented line without glyph
\*   text   : any other non-blank line
LineTokens ==
    {"echo", "start", "end", "json", "braces", "pass", "fail", "ipass",
     "ifail", "detail", "text"}

TypicalStdouts ==
    { <<"echo", "start", "json", "end">>,
      <<"echo", "start", "braces", "end">>,
      <<"start", "json", "end">>,
      <<"echo", "pass", "fail">>,
      <<"echo", "fail", "detail">> }

JsStdouts == SeqsUpTo(LineTokens, MaxOutLines) \cup TypicalStdouts

\* The outputs of the jobs followed to the end of the call: no line, any one
\* line, or a typical output.
JobStdouts == {<<>>} \cup {<<t>> : t \in LineTokens} \cup TypicalStdouts

\* The per-test records of a JSON report; duration is <<>> when the record
\* has no duration key and <<d>> when it has one.
ReportTests == [status : {"passed", "failed", "pending"}, duration : {<<>>, <<7>>}]

Reports == SeqsUpTo(ReportTests, MaxJsonTests)

\* The content of the report matters only when a json line is printed.
JsOutputs ==
    {o \in [returncode : ExitCodes, stdout : JobStdouts, stderr : PlainTexts,
            report : Reports] :
        "json" \notin Range(o.stdout) => o.report = <<>>}

\* ---------------------------------------------------------------- result parsers
\* The lines that hold the start marker, the end marker, the report's root key.
StartMarkerLines == {"echo", "start"}
EndMarkerLines == {"echo", "end"}
JsonLines == {"json"}

\* str.find / str.rfind at line granularity: the first / last line among
\* `lines`; 0 stands for -1.
FirstLine(raw, lines) ==
    IF \E i \in 1..Len(raw) : raw[i] \in lines
    THEN CHOOSE i \in 1..Len(raw) :
            raw[i] \in lines /\ \A j \in 1..(i - 1) : raw[j] \notin lines
    ELSE 0

LastLine(raw, lines) ==
    IF \E i \in 1..Len(raw) : raw[i] \in lines
    THEN CHOOSE i \in 1..Len(raw) :
            raw[i] \in lines /\ \A j \in (i + 1)..Len(raw) : raw[j] \notin lines
    ELSE 0

TestCase(name, status, duration, error) ==
    [name |-> name, status |-> status, duration |-> duration, error |-> error]

\* t.get("duration") or 0, then int()
DurationOf(t) == IF t.duration = <<>> THEN 0 ELSE t.duration[1]

\* _jest_json_to_tests(data) for the report of a json line
RECURSIVE _jest_json_to_tests(_)
_jest_json_to_tests(report) ==
    IF report = <<>> THEN <<>>
    ELSE LET t == Head(report)
         IN  <<TestCase("report-test",
                        IF t.status = "passed" THEN "passed" ELSE "failed",
                        DurationOf(t),
                        IF t.status = "failed" THEN "failureMessages" ELSE None)>>
             \o _jest_json_to_tests(Tail(report))

\* Lines 1475-1487: the Jest block between the first start marker and the
\* first end marker; [] is what parsed_tests keeps when json.loads raises.
JestDelimited(raw, report) ==
    LET si == FirstLine(raw, StartMarkerLines)
        ei == FirstLine(raw, EndMarkerLines)
    IN  IF si # 0 /\ ei # 0 /\ raw[si] = "start" /\ raw[ei] = "end" /\ ei = si + 2
        THEN IF raw[si + 1] = "json" THEN _jest_json_to_tests(report)
             ELSE <<>>      \* "{}" loads as an empty dict, anything else raises
        ELSE <<>>

\* _parse_jest_json(raw): json.loads of everything from the report's opening
\* brace to the end of raw; TRUE when it yields the report.
_parse_jest_json(raw) ==
    LET idx == FirstLine(raw, JsonLines)
    IN  idx # 0 /\ idx = Len(raw)

\* _parse_jest_text(raw)
RECURSIVE _parse_jest_text(_)
_parse_jest_text(raw) ==
    IF raw = <<>> THEN <<>>
    ELSE (CASE Head(raw) \in {"pass", "ipass"} ->
                    <<TestCase("glyph-test", "passed", 0, None)>>
            [] Head(raw) \in {"fail", "ifail"} ->
                    <<TestCase("glyph-test", "failed", 0, "See output for details")>>
            [] OTHER -> <<>>)
         \o _parse_jest_text(Tail(raw))

\* _parse_mocha_json(raw): TRUE when a report is extracted, by the delimited
\* block between the last start marker and the last end marker or, failing
\* that, by raw_decode at the first "stats" key.
_parse_mocha_json(raw) ==
    LET si == LastLine(raw, StartMarkerLines)
        ei == LastLine(raw, EndMarkerLines)
        delimited == /\ si # 0 /\ ei # 0 /\ ei > si
                     /\ raw[si] = "start" /\ raw[ei] = "end" /\ ei = si + 2
                     /\ raw[si + 1] = "json"
    IN  delimited \/ FirstLine(raw, JsonLines) # 0

\* _mocha_json_to_tests(data): passes, then failures, then pending
_mocha_json_to_tests(report) ==
    LET IsPassed(t) == t.status = "passed"
        IsFailed(t) == t.status = "failed"
        IsPending(t) == t.status = "pending"
        Conv(ts, status, zero, error) ==
            [i \in 1..Len(ts) |->
                TestCase("report-test", status,
                         IF zero THEN 0 ELSE DurationOf(ts[i]), error)]
    IN  Conv(SelectSeq(report, IsPassed), "passed", FALSE, None)
        \o Conv(SelectSeq(report, IsFailed), "failed", FALSE, "err.message")
        \o Conv(SelectSeq(report, IsPending), "failed", TRUE, "Test was pending/skipped")

\* _parse_jasmine_text(raw), from line i on
IsIndented(line) == line \in {"ipass", "ifail", "detail"}

RECURSIVE SkipIndented(_, _)
SkipIndented(raw, i) ==
    IF i <= Len(raw) /\ IsIndented(raw[i]) THEN SkipIndented(raw, i + 1) ELSE i

RECURSIVE JasmineFrom(_, _)
JasmineFrom(raw, i) ==
    IF i > Len(raw) THEN <<>>
    ELSE IF raw[i] \in {"pass", "ipass"}
         THEN <<TestCase("glyph-test", "passed", 0, None)>> \o JasmineFrom(raw, i + 1)
    ELSE IF raw[i] \in {"fail", "ifail"}
         THEN LET k == SkipIndented(raw, i + 1)
              IN  <<TestCase("glyph-test", "failed", 0,
                             IF k > i + 1 THEN "detail" ELSE "Test failed")>>
                  \o JasmineFrom(raw, k)
    ELSE JasmineFrom(raw, i + 1)

_parse_jasmine_text(raw) == JasmineFrom(raw, 1)

\* _build_js_test_results(tests)
_build_js_test_results(tests) ==
    LET IsPassed(t) == t.status = "passed"
        FailedWithError(t) == t.status = "failed" /\ t.error # None
        total == Len(tests)
        passed == Len(SelectSeq(tests, IsPassed))
    IN  [total |-> total, passed |-> passed, failed |-> total - passed,
         skipped |-> 0,
         failures |-> [i \in 1..Len(SelectSeq(tests, FailedWithError)) |-> "name: error"],
         tests |-> tests]

\* Lines 1470-1545: parsed_tests of the JavaScript pipeline.
JsParsedTests(fw, raw, report) ==
    IF fw = "jest"
    THEN LET t1 == JestDelimited(raw, report)
             t2 == IF t1 = <<>> /\ _parse_jest_json(raw)
                   THEN _jest_json_to_tests(report) ELSE t1
         IN  IF t2 = <<>> THEN _parse_jest_text(raw) ELSE t2
    ELSE IF fw = "mocha"
    THEN LET t1 == IF _parse_mocha_json(raw) THEN _mocha_json_to_tests(report) ELSE <<>>
             t2 == IF t1 = <<>> THEN _parse_jest_text(raw) ELSE t1
             has_mocha_stats == \E i \in 1..Len(raw) : raw[i] \in JsonLines
         IN  IF t2 = <<>> /\ ~has_mocha_stats
             THEN <<TestCase("Test suite failed to run", "failed", 0, "raw output")>>
             ELSE t2
    ELSE LET t1 == _parse_jasmine_text(raw)
         IN  IF t1 = <<>> THEN _parse_jest_text(raw) ELSE t1

\* Lines 944-995: test_summary of the Java pipeline.
RECURSIVE SumReports(_)
SumReports(reports) ==
    IF reports = <<>> THEN [total |-> 0, failed |-> 0, skipped |-> 0]
    ELSE LET r == Head(reports)
             rest == SumReports(Tail(reports))
         IN  IF r.parses
             THEN [total |-> rest.total + r.tests,
                   failed |-> rest.failed + r.failures + r.errors,
                   skipped |-> rest.skipped + r.skipped]
             ELSE rest

JavaTestSummary(surefire) ==
    LET sums == SumReports(IF surefire.exists THEN surefire.reports ELSE <<>>)
    IN  [total |-> sums.total,
         passed |-> sums.total - sums.failed - sums.skipped,
         failed |-> sums.failed,
         skipped |-> sums.skipped,
         failures |-> [i \in 1..sums.failed |-> "classname.name: msg"]]

JavaXmlReports(surefire) ==
    LET Parses(r) == r.parses
    IN  IF surefire.exists THEN SelectSeq(surefire.reports, Parses) ELSE <<>>

\* ---------------------------------------------------------------- job state
\* f"genai-test-{uuid.uuid4().hex[:8]}"
ContainerNames == {"genai-test-1a2b3c4d"}

JobDir == "job_dir"

NoCmd == [name |-> None, network |-> None, env_file |-> FALSE, mount |-> None,
          script |-> None, image |-> None]

NoResult == [pending |-> TRUE]

\* The dict of the timeout handlers.
TimeoutResult ==
    [success |-> FALSE, exit_code |-> -1, output |-> <<>>,
     errors |-> <<"Execution timed out after {timeout}s">>]

\* The dict of the `except Exception` handlers (errors is str(e)).
CrashResult ==
    [success |-> FALSE, exit_code |-> -1, output |-> <<>>, errors |-> <<"str(e)">>]

\* _get_docker_mount_args(job_dir)
_get_docker_mount_args(named_volume) == IF named_volume THEN "volume" ELSE "bind"

EnvFiles == IF req.env_vars THEN {".env"} ELSE {}

\* Outcomes of `docker kill <name>` run with check=False and no timeout: the
\* container is killed, the command fails and its status is ignored,
\* starting the command raises, or the command does not come back and
\* subprocess.run waits for it without limit.
KillOutcomes == {"killed", "failed", "raised", "hangs"}

\* Values of the state that is not in use.
NoConnections == [t \in {} |-> 0]

SseIdle ==
    /\ _sse_connections = NoConnections
    /\ event_queues = <<>>
    /\ streams = <<>>
    /\ tracker = <<>>

QueueIdle ==
    /\ row = [status |-> None]
    /\ patches = <<>>

RetryIdle == retry = [pc |-> "idle"]

SvcIdle == SseIdle /\ QueueIdle /\ RetryIdle

NoCall == [fn |-> None]
NoJobs == <<>>
NoVolume == [named |-> FALSE, dirs |-> {}]

Init ==
    /\ req \in Requests
    /\ container_name \in ContainerNames
    /\ pc = "start"
    /\ temp_dir = None
    /\ dir_exists = FALSE
    /\ files = {}
    /\ docker_cmd = NoCmd
    /\ container = "none"
    /\ kills = <<>>
    /\ exc = "none"
    /\ detected_language = None
    /\ merged_requirements = NoneText
    /\ framework = None
    /\ log = {}
    /\ result = NoResult
    /\ call = NoCall
    /\ jobs = NoJobs
    /\ daemon = {}
    /\ volume = NoVolume
    /\ SvcIdle

\* ---------------------------------------------------------------- orchestrator
\* Lines 1589-1598: create the working directory.  os.makedirs / mkdtemp can
\* raise; in the shared-volume deployment temp_dir is already assigned then.
MakeWorkDir ==
    /\ pc = "start"
    /\ \E ok \in BOOLEAN :
        IF ok
        THEN /\ temp_dir' = JobDir
             /\ dir_exists' = TRUE
             /\ pc' = "detect"
             /\ exc' = exc
        ELSE /\ temp_dir' = IF req.named_volume THEN JobDir ELSE None
             /\ dir_exists' = FALSE
             /\ pc' = "except"
             /\ exc' = "OSError"
    /\ UNCHANGED <<svc, aux, req, container_name, files, docker_cmd, container, kills,
                   detected_language, merged_requirements, framework, log, result>>

\* Lines 1600-1630: detect the language and route to a pipeline.
Route ==
    /\ pc = "detect"
    /\ detected_language' = _detect_language(req.code, req.language)
    /\ pc' = IF detected_language' = "java" THEN "java_prepare"
             ELSE IF detected_language' \in {"javascript", "typescript"} THEN "js_prepare"
             ELSE "py_prepare"
    /\ UNCHANGED <<svc, aux, req, container_name, temp_dir, dir_exists, files, docker_cmd,
                   container, kills, exc, merged_requirements, framework, log, result>>

\* ---------------------------------------------------------------- Python pipeline
PySourceFiles(code) ==
    IF code.bundle # <<>>
    THEN {code.bundle[i].fname : i \in 1..Len(code.bundle)} \cup {"conftest.py"}
    ELSE {"source.py"}

\* Variant of PyNetwork that lost the `not` of line 1721.
PyNetwork_LostNot(execution_mode, merged, cfg_allow_network) ==
    LET allow_network == (~merged.is_none) \/ cfg_allow_network
    IN  IF execution_mode = "unit" /\ allow_network THEN "none" ELSE "default"

\* Lines 1714-1722
PyNetwork(execution_mode, merged, cfg_allow_network) ==
    LET allow_network == (~merged.is_none) \/ cfg_allow_network
    IN  IF execution_mode = "unit" /\ ~allow_network THEN "none" ELSE "default"

\* Lines 1632-1660: rewrite the test (single file) and write the source
\* file(s) and test.py into the working directory.
PyWriteTests ==
    /\ pc = "py_prepare"
    /\ \E io_ok \in BOOLEAN :
        IF ~io_ok
        THEN /\ exc' = "OSError"
             /\ pc' = "except"
             /\ files' = files
        ELSE /\ files' = PySourceFiles(req.code) \cup {"test.py"}
             /\ pc' = "py_resolve"
             /\ exc' = exc
    /\ UNCHANGED <<svc, aux, req, container_name, temp_dir, dir_exists, docker_cmd, container,
                   kills, detected_language, merged_requirements, framework, log,
                   result>>

\* Lines 1662-1737: merge the requirements, write requirements.txt and .env,
\* build docker_cmd.  A write can fail only when there is a file to write.
PyPrepare ==
    /\ pc = "py_resolve"
    /\ \E requirements \in UserRequirements, io_ok \in BOOLEAN :
        LET r == PyRequirements(req.code, requirements)
        IN  IF r.raised
            THEN /\ exc' = "AttributeError"
                 /\ pc' = "except"
                 /\ UNCHANGED <<files, merged_requirements, docker_cmd>>
            ELSE IF ~io_ok /\ (~r.merged.is_none \/ req.env_vars)
            THEN /\ exc' = "OSError"
                 /\ pc' = "except"
                 /\ merged_requirements' = r.merged
                 /\ UNCHANGED <<files, docker_cmd>>
            ELSE /\ merged_requirements' = r.merged
                 /\ files' = files \cup EnvFiles
                               \cup (IF r.merged.is_none THEN {} ELSE {"requirements.txt"})
                 /\ docker_cmd' =
                        [name |-> container_name,
                         network |-> PyNetwork(req.execution_mode, r.merged, req.allow_network),
                         env_file |-> req.env_vars,
                         mount |-> _get_docker_mount_args(req.named_volume),
                         script |-> IF r.merged.is_none THEN "pytest"
                                    ELSE "pip install && pytest",
                         image |-> _select_executor_image(req.code, "python",
                                                          req.executor_type)]
                 /\ pc' = "py_run"
                 /\ exc' = exc
    /\ UNCHANGED <<svc, aux, req, container_name, temp_dir, dir_exists, container, kills,
                   detected_language, framework, log, result>>

\* Line 1739: subprocess.run starts docker run; starting it can raise.
PyLaunch ==
    /\ pc = "py_run"
    /\ \E ok \in BOOLEAN :
        IF ok THEN container' = "running" /\ pc' = "py_wait" /\ exc' = exc
        ELSE container' = container /\ pc' = "except" /\ exc' = "OSError"
    /\ UNCHANGED <<svc, aux, req, container_name, temp_dir, dir_exists, files, docker_cmd, kills,
                   detected_language, merged_requirements, framework, log, result>>

\* Lines 1739-1750: the container ends within the timeout.
PyCompleted ==
    /\ pc = "py_wait"
    /\ \E o \in PyOutputs :
        result' = [success |-> o.returncode = 0,
                   exit_code |-> o.returncode,
                   output |-> o.stdout,
                   errors |-> o.stderr,
                   container_name |-> container_name]
    /\ container' = "exited"
    /\ pc' = "finally"
    /\ UNCHANGED <<svc, aux, req, container_name, temp_dir, dir_exists, files, docker_cmd, kills,
                   exc, detected_language, merged_requirements, framework, log>>

\* Line 1739: the timeout elapses; subprocess.run kills the docker client
\* process, the container keeps running.
PyTimeout ==
    /\ pc = "py_wait"
    /\ exc' = "TimeoutExpired"
    /\ pc' = "except_timeout"
    /\ UNCHANGED <<svc, aux, req, container_name, temp_dir, dir_exists, files, docker_cmd,
                   container, kills, detected_language, merged_requirements,
                   framework, log, result>>

\* Line 1739: waiting on the launched container raises something else.
PyWaitError ==
    /\ pc = "py_wait"
    /\ exc' = "OSError"
    /\ pc' = "except"
    /\ container' \in {"running", "exited"}
    /\ UNCHANGED <<svc, aux, req, container_name, temp_dir, dir_exists, files, docker_cmd,
                   kills, detected_language, merged_requirements, framework, log, result>>

\* Lines 1752-1754: except subprocess.TimeoutExpired.  An exception raised by
\* the kill leaves this handler and no sibling handler catches it.
PyTimeoutHandler ==
    /\ pc = "except_timeout"
    /\ kills' = Append(kills, container_name)
    /\ \E k \in KillOutcomes :
        /\ container' = IF k = "killed" THEN "killed" ELSE container
        /\ IF k = "hangs"
           THEN UNCHANGED <<exc, result>> /\ pc' = "kill_wait"
           ELSE IF k = "raised"
           THEN exc' = "OSError" /\ result' = result /\ pc' = "finally"
           ELSE exc' = "none" /\ result' = TimeoutResult /\ pc' = "finally"
    /\ UNCHANGED <<svc, aux, req, container_name, temp_dir, dir_exists, files, docker_cmd,
                   detected_language, merged_requirements, framework, log>>

\* Lines 1755-1756: except Exception.
PyExceptHandler ==
    /\ pc = "except"
    /\ result' = CrashResult
    /\ exc' = "none"
    /\ pc' = "finally"
    /\ UNCHANGED <<svc, aux, req, container_name, temp_dir, dir_exists, files, docker_cmd,
                   container, kills, detected_language, merged_requirements,
                   framework, log>>

\* Variant of Finally with the removal at the end of the try body instead of
\* the finally block: it runs on the completed paths only.
Finally_CleanupOnlyWhenCompleted ==
    /\ pc = "finally"
    /\ IF temp_dir # None /\ dir_exists /\ exc = "none" /\ result.exit_code # -1
       THEN \E ok \in BOOLEAN :
               IF ok THEN dir_exists' = FALSE /\ files' = {} /\ log' = log
               ELSE /\ log' = log \cup {"Failed to clean up temp dir"}
                    /\ UNCHANGED <<dir_exists, files>>
       ELSE UNCHANGED <<dir_exists, files, log>>
    /\ pc' = IF exc = "none" THEN "returned" ELSE "raised"
    /\ UNCHANGED <<svc, aux, req, container_name, temp_dir, docker_cmd, container, kills, exc,
                   detected_language, merged_requirements, framework, result>>

\* Lines 1757-1763: the finally block, then the return (or the exception
\* in flight leaves the function).
Finally ==
    /\ pc = "finally"
    /\ IF temp_dir # None /\ dir_exists
       THEN \E ok \in BOOLEAN :
               IF ok THEN dir_exists' = FALSE /\ files' = {} /\ log' = log
               ELSE /\ log' = log \cup {"Failed to clean up temp dir"}
                    /\ UNCHANGED <<dir_exists, files>>
       ELSE UNCHANGED <<dir_exists, files, log>>
    /\ pc' = IF exc = "none" THEN "returned" ELSE "raised"
    /\ UNCHANGED <<svc, aux, req, container_name, temp_dir, docker_cmd, container, kills, exc,
                   detected_language, merged_requirements, framework, result>>

\* ---------------------------------------------------------------- Java pipeline
JavaFiles ==
    {"src/main/java/com/test/Source.java", "src/test/java/com/test/Test.java", "pom.xml"}

\* Lines 829-937: write sources, test and pom.xml, build docker_cmd.  No
\* --network argument is ever added; the image is the literal of line 934
\* (the value computed at line 913 is not used).
JavaPrepare ==
    /\ pc = "java_prepare"
    /\ \E io_ok \in BOOLEAN :
        IF ~io_ok
        THEN /\ exc' = "OSError"
             /\ pc' = "java_except"
             /\ UNCHANGED <<files, docker_cmd>>
        ELSE /\ files' = JavaFiles \cup EnvFiles
             /\ docker_cmd' =
                    [name |-> container_name,
                     network |-> "default",
                     env_file |-> req.env_vars,
                     mount |-> _get_docker_mount_args(req.named_volume),
                     script |-> "mvn clean test",
                     image |-> "genaiqa/java-basic:latest"]
             /\ pc' = "java_run"
             /\ exc' = exc
    /\ UNCHANGED <<svc, aux, req, container_name, temp_dir, dir_exists, container, kills,
                   detected_language, merged_requirements, framework, log, result>>

\* Lines 939-1007: the container ends within the timeout; the surefire
\* reports it left are summed up.
JavaSuccess(returncode, test_summary) ==
    (returncode = 0) /\ (IF test_summary.total > 0 THEN test_summary.failed = 0 ELSE TRUE)

\* The directory mvn leaves in the working directory when tests ran.
SurefireDir == "target/surefire-reports"

JavaCompleted ==
    /\ pc = "java_wait"
    /\ \E o \in JavaOutputs :
        LET test_summary == JavaTestSummary(o.surefire)
        IN  /\ result' = [success |-> JavaSuccess(o.returncode, test_summary),
                       output |-> o.stdout,
                       errors |-> o.stderr,
                       exit_code |-> o.returncode,
                       xml_reports |-> JavaXmlReports(o.surefire),
                       test_results_json |-> test_summary]
            /\ files' = files \cup (IF o.surefire.exists THEN {SurefireDir} ELSE {})
    /\ container' = "exited"
    /\ pc' = "finally"
    /\ UNCHANGED <<svc, aux, req, container_name, temp_dir, dir_exists, docker_cmd, kills,
                   exc, detected_language, merged_requirements, framework, log>>

\* Line 939: subprocess.run starts docker run; starting it can raise.
JavaLaunch ==
    /\ pc = "java_run"
    /\ \E ok \in BOOLEAN :
        IF ok THEN container' = "running" /\ pc' = "java_wait" /\ exc' = exc
        ELSE container' = container /\ pc' = "java_except" /\ exc' = "OSError"
    /\ UNCHANGED <<svc, aux, req, container_name, temp_dir, dir_exists, files, docker_cmd, kills,
                   detected_language, merged_requirements, framework, log, result>>

\* Line 939: the timeout elapses; the container keeps running.
JavaTimeout ==
    /\ pc = "java_wait"
    /\ exc' = "TimeoutExpired"
    /\ pc' = "java_except_timeout"
    /\ UNCHANGED <<svc, aux, req, container_name, temp_dir, dir_exists, files, docker_cmd,
                   container, kills, detected_language, merged_requirements, framework,
                   log, result>>

\* Line 939: waiting on the launched container raises something else.
JavaWaitError ==
    /\ pc = "java_wait"
    /\ exc' = "OSError"
    /\ pc' = "java_except"
    /\ container' \in {"running", "exited"}
    /\ UNCHANGED <<svc, aux, req, container_name, temp_dir, dir_exists, files, docker_cmd, kills,
                   detected_language, merged_requirements, framework, log, result>>

\* Lines 1009-1011: except subprocess.TimeoutExpired.  An exception raised
\* by the kill leaves execute_java_tests and is caught by the
\* `except Exception` of execute_tests_in_docker.
JavaTimeoutHandler ==
    /\ pc = "java_except_timeout"
    /\ kills' = Append(kills, container_name)
    /\ \E k \in KillOutcomes :
        /\ container' = IF k = "killed" THEN "killed" ELSE container
        /\ IF k = "hangs"
           THEN UNCHANGED <<exc, result>> /\ pc' = "kill_wait"
           ELSE IF k = "raised"
           THEN exc' = "OSError" /\ result' = result /\ pc' = "except"
           ELSE exc' = "none" /\ result' = TimeoutResult /\ pc' = "finally"
    /\ UNCHANGED <<svc, aux, req, container_name, temp_dir, dir_exists, files, docker_cmd,
                   detected_language, merged_requirements, framework, log>>

\* Lines 1012-1013: except Exception; the dict is returned through
\* execute_tests_in_docker.
JavaExceptHandler ==
    /\ pc = "java_except"
    /\ result' = CrashResult
    /\ exc' = "none"
    /\ pc' = "finally"
    /\ UNCHANGED <<svc, aux, req, container_name, temp_dir, dir_exists, files, docker_cmd,
                   container, kills, detected_language, merged_requirements, framework,
                   log>>

\* ---------------------------------------------------------------- JavaScript pipeline
\* Lines 1288-1312: framework from the config, else from the test code.
JsFramework(cfg_framework, code) ==
    IF cfg_framework \in {"jest", "mocha", "jasmine"} THEN cfg_framework
    ELSE LET is_jasmine == code.fw_jasmine
             is_mocha == (~is_jasmine) /\
                         (code.fw_mocha \/ (code.fw_describe_it /\ ~code.fw_jest))
         IN  IF is_jasmine THEN "jasmine" ELSE IF is_mocha THEN "mocha" ELSE "jest"

JsFiles(code, language, fw) ==
    LET ext == IF language = "typescript" THEN "ts" ELSE "js"
    IN  (IF code.bundle # <<>>
         THEN {code.bundle[i].fname : i \in 1..Len(code.bundle)}
         ELSE {"source." \o ext})
        \cup {"test." \o ext, "package.json"}
        \cup (IF language = "typescript" THEN {"tsconfig.json"} ELSE {})
        \cup (IF fw = "jasmine" THEN {"jasmine.json"} ELSE {})

\* Lines 1450-1451
JsNetwork(execution_mode) == IF execution_mode = "unit" THEN "none" ELSE "default"

\* Lines 1286-1453: pick the framework, write the files, build docker_cmd.
JsPrepare ==
    /\ pc = "js_prepare"
    /\ \E cfg_framework \in ConfigFrameworks, io_ok \in BOOLEAN :
        LET fw == JsFramework(cfg_framework, req.code)
        IN  /\ framework' = fw
            /\ IF ~io_ok
               THEN /\ exc' = "OSError"
                    /\ pc' = "js_except"
                    /\ UNCHANGED <<files, docker_cmd>>
               ELSE /\ files' = JsFiles(req.code, detected_language, fw) \cup EnvFiles
                    /\ docker_cmd' =
                           [name |-> container_name,
                            network |-> JsNetwork(req.execution_mode),
                            env_file |-> req.env_vars,
                            mount |-> _get_docker_mount_args(req.named_volume),
                            script |-> "npm test 2>&1",
                            image |-> "genaiqa/javascript-basic:latest"]
                    /\ pc' = "js_run"
                    /\ exc' = exc
    /\ UNCHANGED <<svc, aux, req, container_name, temp_dir, dir_exists, container, kills,
                   detected_language, merged_requirements, log, result>>

\* Lines 1547-1551
JsSuccess(returncode, test_results_json) ==
    IF test_results_json.total > 0 THEN test_results_json.failed = 0
    ELSE returncode = 0

\* Lines 1462-1560: the dict execute_javascript_tests returns for a container
\* that ended with `returncode` and printed stdout and stderr.
JsRunResult(fw, returncode, stdout, stderr, report) ==
    LET raw == stdout \o stderr
        parsed_tests == JsParsedTests(fw, raw, report)
        test_results_json == _build_js_test_results(parsed_tests)
    IN  [success |-> JsSuccess(returncode, test_results_json),
         output |-> stdout,
         errors |-> stderr,
         exit_code |-> returncode,
         xml_reports |-> <<>>,
         test_results_json |-> test_results_json]

\* Line 1466: logger.debug(f"[JS-EXEC] stdout:\n{result.stdout[:4000]}"), when
\* a line of the output shows the value of an environment variable.
EnvValueLogged == "[JS-EXEC] stdout: <value of an env var>"

\* Lines 1458-1560: the container ends within the timeout; its output is
\* logged and parsed by the framework's strategy.  A container that was
\* given the environment file can print a value on a line of its own.
JsCompleted ==
    /\ pc = "js_wait"
    /\ \E o \in JsOutputs, shows_env \in BOOLEAN :
        /\ shows_env => (docker_cmd.env_file /\ "text" \in Range(o.stdout))
        /\ log' = IF shows_env THEN log \cup {EnvValueLogged} ELSE log
        /\ result' = JsRunResult(framework, o.returncode, o.stdout, o.stderr, o.report)
    /\ container' = "exited"
    /\ pc' = "finally"
    /\ UNCHANGED <<svc, aux, req, container_name, temp_dir, dir_exists, files, docker_cmd, kills,
                   exc, detected_language, merged_requirements, framework>>

\* Line 1458: subprocess.run starts docker run; starting it can raise.
JsLaunch ==
    /\ pc = "js_run"
    /\ \E ok \in BOOLEAN :
        IF ok THEN container' = "running" /\ pc' = "js_wait" /\ exc' = exc
        ELSE container' = container /\ pc' = "js_except" /\ exc' = "OSError"
    /\ UNCHANGED <<svc, aux, req, container_name, temp_dir, dir_exists, files, docker_cmd, kills,
                   detected_language, merged_requirements, framework, log, result>>

\* Line 1458: the timeout elapses; the container keeps running.
JsTimeout ==
    /\ pc = "js_wait"
    /\ exc' = "TimeoutExpired"
    /\ pc' = "js_except_timeout"
    /\ UNCHANGED <<svc, aux, req, container_name, temp_dir, dir_exists, files, docker_cmd,
                   container, kills, detected_language, merged_requirements, framework,
                   log, result>>

\* Line 1458: waiting on the launched container raises something else.
JsWaitError ==
    /\ pc = "js_wait"
    /\ exc' = "OSError"
    /\ pc' = "js_except"
    /\ container' \in {"running", "exited"}
    /\ UNCHANGED <<svc, aux, req, container_name, temp_dir, dir_exists, files, docker_cmd, kills,
                   detected_language, merged_requirements, framework, log, result>>

\* Lines 1562-1564: except subprocess.TimeoutExpired.  An exception raised
\* by the kill leaves execute_javascript_tests and is caught by the
\* `except Exception` of execute_tests_in_docker.
JsTimeoutHandler ==
    /\ pc = "js_except_timeout"
    /\ kills' = Append(kills, container_name)
    /\ \E k \in KillOutcomes :
        /\ container' = IF k = "killed" THEN "killed" ELSE container
        /\ IF k = "hangs"
           THEN UNCHANGED <<exc, result>> /\ pc' = "kill_wait"
           ELSE IF k = "raised"
           THEN exc' = "OSError" /\ result' = result /\ pc' = "except"
           ELSE exc' = "none" /\ result' = TimeoutResult /\ pc' = "finally"
    /\ UNCHANGED <<svc, aux, req, container_name, temp_dir, dir_exists, files, docker_cmd,
                   detected_language, merged_requirements, framework, log>>

\* Lines 1565-1566: except Exception; the dict is returned through
\* execute_tests_in_docker.
JsExceptHandler ==
    /\ pc = "js_except"
    /\ result' = CrashResult
    /\ exc' = "none"
    /\ pc' = "finally"
    /\ UNCHANGED <<svc, aux, req, container_name, temp_dir, dir_exists, files, docker_cmd,
                   container, kills, detected_language, merged_requirements, framework,
                   log>>

\* ---------------------------------------------------------------- specification
Next ==
    \/ MakeWorkDir
    \/ Route
    \/ PyWriteTests
    \/ PyPrepare
    \/ PyLaunch
    \/ PyCompleted
    \/ PyTimeout
    \/ PyWaitError
    \/ PyTimeoutHandler
    \/ PyExceptHandler
    \/ JavaPrepare
    \/ JavaLaunch
    \/ JavaCompleted
    \/ JavaTimeout
    \/ JavaWaitError
    \/ JavaTimeoutHandler
    \/ JavaExceptHandler
    \/ JsPrepare
    \/ JsLaunch
    \/ JsCompleted
    \/ JsTimeout
    \/ JsWaitError
    \/ JsTimeoutHandler
    \/ JsExceptHandler
    \/ Finally

Spec == Init /\ [][Next]_vars

\* The interpreter runs the call's next statement, and subprocess.run with
\* timeout=timeout comes back when the container ends or the timeout
\* elapses: a step that can be taken is taken.
\* Termination is followed for the unit-mode requests without environment
\* variables in the local deployment: none of these settings is read by a
\* wait or by a kill.
LiveInit ==
    /\ Init
    /\ req.execution_mode = "unit"
    /\ ~req.allow_network
    /\ ~req.env_vars
    /\ ~req.named_volume

LiveSpec == LiveInit /\ [][Next]_vars /\ WF_vars(Next)

\* ---------------------------------------------------------------- configured launches
\* A test that imports requests (a dependency of the python-web image).
WebSample == Sample("py_web", NoDet, NoFw, TRUE, <<"requests", "source">>, <<>>)

\* The requests followed up to the launch of the container: every
\* executor_type.
ConfiguredRequests == RequestsWith(CodeSamples \cup {WebSample}, ExecutorTypes)

LaunchInit ==
    /\ req \in ConfiguredRequests
    /\ container_name \in ContainerNames
    /\ pc = "start"
    /\ temp_dir = None
    /\ dir_exists = FALSE
    /\ files = {}
    /\ docker_cmd = NoCmd
    /\ container = "none"
    /\ kills = <<>>
    /\ exc = "none"
    /\ detected_language = None
    /\ merged_requirements = NoneText
    /\ framework = None
    /\ log = {}
    /\ result = NoResult
    /\ call = NoCall
    /\ jobs = NoJobs
    /\ daemon = {}
    /\ volume = NoVolume
    /\ SvcIdle

\* The steps of a call up to subprocess.run.
LaunchNext ==
    \/ MakeWorkDir
    \/ Route
    \/ PyWriteTests
    \/ PyPrepare
    \/ PyLaunch
    \/ JavaPrepare
    \/ JavaLaunch
    \/ JsPrepare
    \/ JsLaunch

LaunchSpec == LaunchInit /\ [][LaunchNext]_vars

\* ---------------------------------------------------------------- Python test rewriting
_ALLOWED_REWRITE_MODULES == {"app", "main", "your_module", "module", "solution", "program"}

\* The module names that occur in the tests and sources of the model.
RewriteModules == {"app", "solution", "calculator", "numpy", "os"}

\* The names the test imports: a function the source may define, a function
\* it does not define, or a star import.
ImportedNames == {"add", "sqrt", "*"}

\* A single-file Python test, described by what the rewriting reads in it:
\*   from_mod, from_name : its line `from <from_mod> import <from_name>`
\*   patch_mod           : the module of its patch("<patch_mod>.x") target,
\*                         None when it patches nothing
\*   parses              : ast.parse(test_code) succeeds
PythonTests ==
    [from_mod : RewriteModules, from_name : ImportedNames,
     patch_mod : RewriteModules \cup {None}, parses : BOOLEAN]

\* A single-file Python source:
\*   top_defs  : its top-level functions and classes ({} also when it does
\*               not parse)
\*   header    : the module of a "# File: <header>.py" comment, or None
\*   from_mods : the modules of its own `from <m> import ...` lines
PythonSources ==
    [top_defs : {{}, {"add"}}, header : {None, "calculator"},
     from_mods : SUBSET {"numpy", "os"}]

\* Lines 646-650: the modules _preprocess_python never removes from the source.
stdlib_modules == {"os", "sys", "requests", "flask"}

\* _safe_rewrite_imports_to_source without its substitution: every
\* from-import keeps its module.
_safe_rewrite_imports_to_source_KeepsModule(mod) == mod

\* _safe_rewrite_imports_to_source, on the module of a from-import.
_safe_rewrite_imports_to_source(mod) ==
    IF mod \in _ALLOWED_REWRITE_MODULES THEN "source" ELSE mod

\* _rewrite_patch_targets_to_source, on the module of a patch target.
_rewrite_patch_targets_to_source(mod) ==
    IF mod \in _ALLOWED_REWRITE_MODULES THEN "source" ELSE mod

\* Lines 536-556: the modules taken for the user's own source module.
UserSourceModules(test, source) ==
    (IF source.header # None THEN {source.header} ELSE {}) \cup
    (IF /\ source.top_defs # {}
        /\ test.parses
        /\ test.from_mod \notin _STDLIB_MODULES \cup {"source"}
        /\ (test.from_name = "*" \/ test.from_name \in source.top_defs)
     THEN {test.from_mod} ELSE {})

\* _preprocess_python(test_code, source_code): the modules the from-import
\* and the patch target of processed_test name, and the name the from-import
\* imports (every substitution ends at the word `import`, so the text after
\* it is the test's).
_preprocess_python(test, source) ==
    LET user_source_modules == UserSourceModules(test, source)
        from0 == IF test.from_mod \in user_source_modules THEN "source"
                 ELSE test.from_mod
        patch0 == IF test.patch_mod \in user_source_modules THEN "source"
                  ELSE test.patch_mod
        from1 == _safe_rewrite_imports_to_source(from0)
        patch1 == _rewrite_patch_targets_to_source(patch0)
        removed_imports == {m \in source.from_mods : m \notin stdlib_modules}
        from2 == IF from1 \in removed_imports THEN "source" ELSE from1
    IN  [from_mod |-> from2, from_name |-> test.from_name, patch_mod |-> patch1]

\* ---------------------------------------------------------------- helpers on their own
MaxReqLines == 2        \* lines of a requirements text

\* Lines of a requirements text: package names that differ in case only,
\* another package, a comment, a blank line.
ReqLines == {"Flask-Cors", "flask-cors", "numpy", "# pinned", ""}

ReqTexts == {Text(ls) : ls \in SeqsUpTo(ReqLines, MaxReqLines)}

MaxImports == 2        \* import statements of a test code

\* The modules a test code imports, in the order of its import statements.
ImportLists == SeqsUpTo({"PIL", "numpy", "os", "yaml"}, MaxImports)

\* The value of a call: what it returned, or that it raised.
Returned(v) == [raised |-> FALSE, value |-> v]
Raised == [raised |-> TRUE, value |-> NoneText]

\* What the framework command of the test script did in the container: its
\* exit status, the lines it printed on the terminal, whether it left a
\* report behind, and the report.
FrameworkRuns ==
    {r \in [status : ExitCodes,
            printed : {<<>>, <<"text">>, <<"pass">>, <<"fail">>},
            wrote_report : BOOLEAN,
            report : Reports] :
        ~r.wrote_report => r.report = <<>>}

\* Lines 1388-1424, 1453: what `sh -c "npm test 2>&1"` prints and how it ends
\* for the scripts.test of the framework.  The Jest and Mocha scripts go on
\* after the framework command (`;`) and end with an echo, whose status is
\* the script's; Jest's `cat ... || echo '{}'` prints {} when there is no
\* report file, Mocha's redirection always creates the file.  The Jasmine
\* script is the framework command alone.
NpmTest(fw, run) ==
    IF fw \in {"jest", "mocha"}
    THEN [returncode |-> 0,
          stdout |-> <<"echo">> \o run.printed \o <<"start">>
                     \o (IF run.wrote_report THEN <<"json">>
                         ELSE IF fw = "jest" THEN <<"braces">> ELSE <<>>)
                     \o <<"end">>]
    ELSE [returncode |-> run.status, stdout |-> <<"echo">> \o run.printed]

\* A helper and its arguments, before it is applied.
Pending(fn, args) == [fn |-> fn, args |-> args, ret |-> <<>>]

\* The calls followed: _preprocess_python on every test and source,
\* _merge_requirements on every pair of texts, and the result parsers on
\* every raw output, by every framework's strategy, with every report when
\* a json line is printed, _parse_jasmine_text on every raw output, and the
\* test script with everything its framework command can do, and
\* _auto_detect_pip_requirements on every list of imports.
PendingCall ==
    \/ \E t \in PythonTests, s \in PythonSources :
            call = Pending("_preprocess_python", <<t, s>>)
    \/ \E u \in ReqTexts \cup {NoneText}, a \in ReqTexts :
            call = Pending("_merge_requirements", <<u, a>>)
    \/ \E fw \in {"jest", "mocha", "jasmine"}, raw \in JsStdouts :
            \E report \in IF "json" \in Range(raw) THEN Reports ELSE {<<>>} :
                call = Pending("_build_js_test_results", <<fw, raw, report>>)
    \/ \E raw \in JsStdouts :
            call = Pending("_parse_jasmine_text", <<raw>>)
    \/ \E parses \in BOOLEAN, imports \in ImportLists, exclude \in SUBSET {"numpy"} :
            call = Pending("_auto_detect_pip_requirements", <<parses, imports, exclude>>)
    \/ \E fw \in {"jest", "mocha", "jasmine"}, run \in FrameworkRuns :
            call = Pending("npm test", <<fw, run>>)

\* The one-job state while helpers are applied on their own or several jobs
\* are followed.
JobIdle ==
    /\ req = [language |-> None]
    /\ container_name = None
    /\ pc = "idle"
    /\ temp_dir = None
    /\ dir_exists = FALSE
    /\ files = {}
    /\ docker_cmd = NoCmd
    /\ container = "none"
    /\ kills = <<>>
    /\ exc = "none"
    /\ detected_language = None
    /\ merged_requirements = NoneText
    /\ framework = None
    /\ log = {}
    /\ result = NoResult

FnInit ==
    /\ JobIdle
    /\ PendingCall
    /\ jobs = NoJobs
    /\ daemon = {}
    /\ volume = NoVolume
    /\ SvcIdle

\* Line 1653: processed_test, fixed_source = _preprocess_python(...)
ApplyPreprocess ==
    /\ call.fn = "_preprocess_python"
    /\ call.ret = <<>>
    /\ call' = [call EXCEPT !.ret = <<_preprocess_python(call.args[1], call.args[2])>>]
    /\ UNCHANGED <<jobvars, svc, jobs, daemon, volume>>

\* The value of _merge_requirements(user_req, auto_req), AttributeError included.
MergeCall(user_req, auto_req) ==
    IF MergeRaises(user_req, auto_req) THEN Raised
    ELSE Returned(_merge_requirements(user_req, auto_req))

\* Line 1676: merged = _merge_requirements(requirements, auto_req)
ApplyMerge ==
    /\ call.fn = "_merge_requirements"
    /\ call.ret = <<>>
    /\ call' = [call EXCEPT !.ret = <<MergeCall(call.args[1], call.args[2])>>]
    /\ UNCHANGED <<jobvars, svc, jobs, daemon, volume>>

\* Line 1675: a value of _merge_requirements is handed to it again, here as
\* both arguments.
ApplyMergeAgain ==
    /\ call.fn = "_merge_requirements"
    /\ Len(call.ret) = 1
    /\ ~call.ret[1].raised
    /\ LET M == call.ret[1].value
       IN  call' = [call EXCEPT !.ret = Append(@, MergeCall(M, M))]
    /\ UNCHANGED <<jobvars, svc, jobs, daemon, volume>>

\* Lines 1470-1547: the raw output is parsed by the framework's strategy and
\* summarised.
ApplyJsParse ==
    /\ call.fn = "_build_js_test_results"
    /\ call.ret = <<>>
    /\ call' = [call EXCEPT !.ret =
                    <<_build_js_test_results(
                         JsParsedTests(call.args[1], call.args[2], call.args[3]))>>]
    /\ UNCHANGED <<jobvars, svc, jobs, daemon, volume>>

\* Lines 1458-1560: the container runs the test script and its output
\* becomes the result.
ApplyNpmTest ==
    /\ call.fn = "npm test"
    /\ call.ret = <<>>
    /\ LET fw == call.args[1]
           run == call.args[2]
           o == NpmTest(fw, run)
       IN  call' = [call EXCEPT !.ret =
                        <<JsRunResult(fw, o.returncode, o.stdout, <<>>, run.report)>>]
    /\ UNCHANGED <<jobvars, svc, jobs, daemon, volume>>

\* Line 1542: parsed_tests = _parse_jasmine_text(raw)
ApplyJasmineParse ==
    /\ call.fn = "_parse_jasmine_text"
    /\ call.ret = <<>>
    /\ call' = [call EXCEPT !.ret = <<_parse_jasmine_text(call.args[1])>>]
    /\ UNCHANGED <<jobvars, svc, jobs, daemon, volume>>

\* Line 1671: auto_req = _auto_detect_pip_requirements(processed_test, exclude=local_modules)
ApplyAutoDetect ==
    /\ call.fn = "_auto_detect_pip_requirements"
    /\ call.ret = <<>>
    /\ call' = [call EXCEPT !.ret =
                    <<_auto_detect_pip_requirements(call.args[1], call.args[2],
                                                    call.args[3])>>]
    /\ UNCHANGED <<jobvars, svc, jobs, daemon, volume>>

FnNext ==
    \/ ApplyAutoDetect
    \/ ApplyJasmineParse
    \/ ApplyNpmTest
    \/ ApplyJsParse
    \/ ApplyPreprocess
    \/ ApplyMerge
    \/ ApplyMergeAgain

FnSpec == FnInit /\ [][FnNext]_vars

\* ---------------------------------------------------------------- concurrent jobs
\* The callers that run execute_tests_in_docker side by side.
Callers == {"caller1", "caller2"}

\* Values of f"genai-test-{uuid.uuid4().hex[:8]}": nothing keeps two draws
\* apart.
DrawnContainerNames == ContainerNames \cup {"genai-test-5e6f7a8b"}

\* Values of os.path.join(SHARED_WORK_DIR, uuid.uuid4().hex)
SharedJobDirs == {"/shared/0f0f", "/shared/a1a1"}

\* Values of tempfile.mkdtemp(prefix="genai_exec_")
LocalJobDirs == {"/tmp/genai_exec_k3", "/tmp/genai_exec_p7"}

IdleJob == [pc |-> "idle", container_name |-> None, temp_dir |-> None, killed |-> {}]

JobsInit ==
    /\ JobIdle
    /\ call = NoCall
    /\ jobs = [j \in Callers |-> IdleJob]
    /\ daemon = {}
    /\ volume \in [named : BOOLEAN, dirs : {{}}]
    /\ SvcIdle

\* Lines 1584-1598: draw the container name and create the working
\* directory.  os.makedirs(exist_ok=True) accepts a directory that exists;
\* mkdtemp creates a directory that did not exist.
JobCreate(j) ==
    /\ jobs[j].pc = "idle"
    /\ \E name \in DrawnContainerNames,
          dir \in IF volume.named THEN SharedJobDirs ELSE LocalJobDirs \ volume.dirs :
        /\ jobs' = [jobs EXCEPT ![j] = [pc |-> "created", container_name |-> name,
                                        temp_dir |-> dir, killed |-> {}]]
        /\ volume' = [volume EXCEPT !.dirs = @ \cup {dir}]
    /\ UNCHANGED <<jobvars, svc, call, daemon>>

\* What _get_docker_mount_args mounts into the container: the whole named
\* volume, or the job's directory.
MountOf(dir) == IF volume.named THEN "volume" ELSE dir

\* Line 1739: docker run --rm --name <container_name>.  The daemon refuses a
\* name that a container it holds already has; docker run then ends with an
\* error status and the call goes on to its return.
JobLaunch(j) ==
    /\ jobs[j].pc = "created"
    /\ IF \E c \in daemon : c.name = jobs[j].container_name
       THEN /\ jobs' = [jobs EXCEPT ![j].pc = "finally"]
            /\ daemon' = daemon
       ELSE /\ jobs' = [jobs EXCEPT ![j].pc = "waiting"]
            /\ daemon' = daemon \cup {[name |-> jobs[j].container_name, owner |-> j,
                                       mount |-> MountOf(jobs[j].temp_dir)]}
    /\ UNCHANGED <<jobvars, svc, call, volume>>

\* The container of job j ends and --rm removes it; this also happens after
\* the wait on it timed out.
JobContainerExits(j) ==
    /\ \E c \in daemon :
        /\ c.owner = j
        /\ daemon' = daemon \ {c}
    /\ jobs' = [jobs EXCEPT ![j].pc = IF @ = "waiting" THEN "finally" ELSE @]
    /\ UNCHANGED <<jobvars, svc, call, volume>>

\* Line 1739: the timeout elapses; the container keeps running.
JobTimeout(j) ==
    /\ jobs[j].pc = "waiting"
    /\ jobs' = [jobs EXCEPT ![j].pc = "except_timeout"]
    /\ UNCHANGED <<jobvars, svc, call, daemon, volume>>

\* Line 1753: docker kill <container_name> ends the container that has the
\* name at that moment.
JobKill(j) ==
    /\ jobs[j].pc = "except_timeout"
    /\ LET victims == {c \in daemon : c.name = jobs[j].container_name}
       IN  /\ daemon' = daemon \ victims
           /\ jobs' = [jobs EXCEPT ![j].pc = "finally",
                                   ![j].killed = {c.owner : c \in victims}]
    /\ UNCHANGED <<jobvars, svc, call, volume>>

\* Lines 1757-1763: shutil.rmtree(temp_dir), then the return.
JobCleanup(j) ==
    /\ jobs[j].pc = "finally"
    /\ volume' = [volume EXCEPT !.dirs = @ \ {jobs[j].temp_dir}]
    /\ jobs' = [jobs EXCEPT ![j].pc = "done"]
    /\ UNCHANGED <<jobvars, svc, call, daemon>>

JobsNext ==
    \E j \in Callers :
        \/ JobCreate(j)
        \/ JobLaunch(j)
        \/ JobContainerExits(j)
        \/ JobTimeout(j)
        \/ JobKill(j)
        \/ JobCleanup(j)

JobsSpec == JobsInit /\ [][JobsNext]_vars

\* ---------------------------------------------------------------- progress streams
MaxEvents == 2          \* progress events sent for the test run

\* The browsers that open /progress of the same test, and the test.
Clients == {"client1", "client2"}
test_id == "test-1"

\* event_type of ProgressEvent: a progress event or a terminal event.
EventTypes == {"progress", "completed"}
TerminalEvents == {"completed", "failed", "cancelled"}

NewStream == [pc |-> "new", event_queue |-> 0, received |-> <<>>, since |-> 0]

SseInit ==
    /\ JobIdle
    /\ call = NoCall
    /\ jobs = NoJobs
    /\ daemon = {}
    /\ volume = NoVolume
    /\ _sse_connections = NoConnections
    /\ event_queues = <<>>
    /\ streams = [c \in Clients |-> NewStream]
    /\ tracker = <<>>
    /\ QueueIdle
    /\ RetryIdle

\* Lines 115, 50-64: generate() starts and registers.  One queue is kept per
\* test_id; a client that finds one registered is handed the same queue.
\* `since` remembers how many events had been sent when the stream opened.
register_sse_client(c) ==
    /\ streams[c].pc = "new"
    /\ IF test_id \in DOMAIN _sse_connections
       THEN /\ streams' = [streams EXCEPT ![c].pc = "open",
                                          ![c].event_queue = _sse_connections[test_id],
                                          ![c].since = Len(tracker)]
            /\ UNCHANGED <<_sse_connections, event_queues>>
       ELSE /\ event_queues' = Append(event_queues, <<>>)
            /\ _sse_connections' =
                   [t \in DOMAIN _sse_connections \cup {test_id} |->
                       IF t = test_id THEN Len(event_queues) + 1 ELSE _sse_connections[t]]
            /\ streams' = [streams EXCEPT ![c].pc = "open",
                                          ![c].event_queue = Len(event_queues) + 1,
                                          ![c].since = Len(tracker)]
    /\ UNCHANGED <<jobvars, aux, queuevars, retry, tracker>>

\* Lines 80-95: the event is put on the queue registered for its test_id, if
\* there is one.  No event follows a terminal event.
send_progress_event ==
    /\ Len(tracker) < MaxEvents
    /\ \A i \in 1..Len(tracker) : tracker[i].event_type \notin TerminalEvents
    /\ \E ty \in EventTypes :
        LET event == [event_type |-> ty, progress |-> Len(tracker) + 1]
        IN  /\ tracker' = Append(tracker, event)
            /\ event_queues' =
                   IF test_id \in DOMAIN _sse_connections
                   THEN [event_queues EXCEPT ![_sse_connections[test_id]] = Append(@, event)]
                   ELSE event_queues
    /\ UNCHANGED <<jobvars, aux, queuevars, retry, _sse_connections, streams>>

\* Lines 124-137: event_queue.get returns an event; it is yielded, and a
\* terminal event ends the loop.
StreamEvent(c) ==
    /\ streams[c].pc = "open"
    /\ event_queues[streams[c].event_queue] # <<>>
    /\ LET event == Head(event_queues[streams[c].event_queue])
       IN  /\ event_queues' = [event_queues EXCEPT ![streams[c].event_queue] = Tail(@)]
           /\ streams' = [streams EXCEPT
                             ![c].received = Append(@, event),
                             ![c].pc = IF event.event_type \in TerminalEvents
                                       THEN "finally" ELSE "open"]
    /\ UNCHANGED <<jobvars, aux, queuevars, retry, _sse_connections, tracker>>

\* Lines 117-147: the client goes away; the generator is closed at its
\* yield and control passes to the finally block.
StreamDisconnect(c) ==
    /\ streams[c].pc = "open"
    /\ streams' = [streams EXCEPT ![c].pc = "finally"]
    /\ UNCHANGED <<jobvars, aux, queuevars, retry, _sse_connections, event_queues, tracker>>

\* Lines 146-147, 67-77: finally: the entry of the test_id is deleted.
unregister_sse_client(c) ==
    /\ streams[c].pc = "finally"
    /\ _sse_connections' =
           [t \in DOMAIN _sse_connections \ {test_id} |-> _sse_connections[t]]
    /\ streams' = [streams EXCEPT ![c].pc = "closed"]
    /\ UNCHANGED <<jobvars, aux, queuevars, retry, event_queues, tracker>>

SseNext ==
    \/ send_progress_event
    \/ \E c \in Clients : register_sse_client(c)
    \/ \E c \in Clients : StreamEvent(c)
    \/ \E c \in Clients : StreamDisconnect(c)
    \/ \E c \in Clients : unregister_sse_client(c)

SseSpec == SseInit /\ [][SseNext]_vars

\* ---------------------------------------------------------------- queue item status
\* The requests that report a tested file of the same item at the same time,
\* and the file each reports.
PatchRequests == {"request1", "request2", "request3"}

tested_file(r) ==
    CASE r = "request1" -> "a.py"
      [] r = "request2" -> "b.py"
      [] OTHER -> "c.py"

\* file_list of the item.
FileLists ==
    { <<"a.py", "b.py">>, <<"a.py", "b.py", "README.md">>,
      <<"a.py", "b.py", "c.py">>, <<"a.py">>, <<"README.md">> }

\* file_utils.is_testable_file: the extension is in TESTABLE_EXTENSIONS.
is_testable_file(filename) == filename \in {"a.py", "b.py", "c.py"}

\* file_utils.filter_testable_files
filter_testable_files(file_names) == SelectSeq(file_names, is_testable_file)

\* file_utils.all_testable_files_tested
all_testable_files_tested(total_files, tested_files) ==
    LET testable_files == filter_testable_files(total_files)
    IN  IF testable_files = <<>> THEN TRUE
        ELSE \A i \in 1..Len(testable_files) : testable_files[i] \in Range(tested_files)

NewPatch == [pc |-> "new", item |-> [status |-> None], response |-> 0]

QueueInit ==
    /\ JobIdle
    /\ call = NoCall
    /\ jobs = NoJobs
    /\ daemon = {}
    /\ volume = NoVolume
    /\ SseIdle
    /\ RetryIdle
    /\ \E fl \in FileLists :
            row = [status |-> "pending", tested_files |-> <<>>, file_list |-> fl]
    /\ patches = [r \in PatchRequests |-> NewPatch]

\* Line 146: item = get_test_queue_item(item_id), the row as it is now.
PatchRead(r) ==
    /\ patches[r].pc = "new"
    /\ patches' = [patches EXCEPT ![r].pc = "read", ![r].item = row]
    /\ UNCHANGED <<jobvars, aux, ssevars, retry, row>>

\* Lines 151-243 with status "running": the tested file is added to the list
\* read before, the status is computed from that list, and one UPDATE writes
\* both; an exception of the query is answered with 500.
PatchWrite(r) ==
    /\ patches[r].pc = "read"
    /\ \E ok \in BOOLEAN :
        LET item == patches[r].item
            tested_files == IF tested_file(r) \notin Range(item.tested_files)
                            THEN Append(item.tested_files, tested_file(r))
                            ELSE item.tested_files
            final_status == IF all_testable_files_tested(item.file_list, tested_files)
                            THEN "done" ELSE "running"
        IN  IF ok
            THEN /\ row' = [row EXCEPT !.status = final_status,
                                       !.tested_files = tested_files]
                 /\ patches' = [patches EXCEPT ![r].pc = "done", ![r].response = 200]
            ELSE /\ row' = row
                 /\ patches' = [patches EXCEPT ![r].pc = "done", ![r].response = 500]
    /\ UNCHANGED <<jobvars, aux, ssevars, retry>>

QueueNext ==
    \/ \E r \in PatchRequests : PatchRead(r)
    \/ \E r \in PatchRequests : PatchWrite(r)

QueueSpec == QueueInit /\ [][QueueNext]_vars

\* ---------------------------------------------------------------- retry with backoff
MaxAttempts == 3        \* largest max_attempts a wrapper is configured with

\* The delays of a configuration, in seconds.
InitialDelays == {0, 1, 2}
BackoffFactors == {1, 2}
MaxDelays == {0, 1, 3}

\* What one invocation of the wrapped function does: it returns, raises an
\* exception of the configured types, or raises another exception.
AttemptOutcomes == {"returns", "raises_listed", "raises_other"}

\* The exception raised by the k-th invocation.
ExceptionOf(k, listed) == [attempt |-> k, listed |-> listed]

RetryInit ==
    /\ JobIdle
    /\ call = NoCall
    /\ jobs = NoJobs
    /\ daemon = {}
    /\ volume = NoVolume
    /\ SseIdle
    /\ QueueIdle
    /\ \E n \in 0..MaxAttempts, d \in InitialDelays, b \in BackoffFactors,
          m \in MaxDelays :
            retry = [pc |-> "loop",
                     max_attempts |-> n, initial_delay |-> d,
                     backoff_factor |-> b, max_delay |-> m,
                     attempt |-> 1,             \* range(1, max_attempts + 1)
                     delay |-> d,               \* line 40
                     last_exception |-> None,   \* line 41
                     invocations |-> <<>>,      \* outcome of every func(...) so far
                     current_delay |-> 0,
                     slept |-> <<>>,            \* argument of every time.sleep so far
                     result |-> None,
                     raised |-> None]

\* Line 65 without the cap.
current_delay_Uncapped(delay, max_delay) == delay

\* Line 65: current_delay = min(delay, max_delay)
current_delay(delay, max_delay) == IF delay < max_delay THEN delay ELSE max_delay

\* Lines 43-65: one pass of the loop body up to the sleep.
RetryAttempt ==
    /\ retry.pc = "loop"
    /\ retry.attempt <= retry.max_attempts
    /\ \E o \in AttemptOutcomes :
        LET k == retry.attempt
            called == [retry EXCEPT !.invocations = Append(@, o)]
        IN  retry' =
              IF o = "returns"
              THEN [called EXCEPT !.pc = "returned", !.result = k]
              ELSE IF o = "raises_other"
              THEN [called EXCEPT !.pc = "raised", !.raised = ExceptionOf(k, FALSE)]
              ELSE IF k = retry.max_attempts
              THEN [called EXCEPT !.pc = "raised",
                                  !.last_exception = ExceptionOf(k, TRUE),
                                  !.raised = ExceptionOf(k, TRUE)]
              ELSE [called EXCEPT !.pc = "sleep",
                                  !.last_exception = ExceptionOf(k, TRUE),
                                  !.current_delay =
                                      current_delay(retry.delay, retry.max_delay)]
    /\ UNCHANGED <<jobvars, aux, ssevars, queuevars>>

\* Lines 72-73: time.sleep(current_delay); delay *= backoff_factor; the loop
\* goes to the next attempt.
RetrySleep ==
    /\ retry.pc = "sleep"
    /\ retry' = [retry EXCEPT !.slept = Append(@, retry.current_delay),
                              !.delay = @ * retry.backoff_factor,
                              !.attempt = @ + 1,
                              !.pc = "loop"]
    /\ UNCHANGED <<jobvars, aux, ssevars, queuevars>>

\* Line 76: the loop ended without return or raise (max_attempts < 1):
\* `raise last_exception` with None raises TypeError.
RetryExhausted ==
    /\ retry.pc = "loop"
    /\ retry.attempt > retry.max_attempts
    /\ retry' = [retry EXCEPT !.pc = "raised",
                              !.raised = IF retry.last_exception = None
                                         THEN "TypeError" ELSE retry.last_exception]
    /\ UNCHANGED <<jobvars, aux, ssevars, queuevars>>

RetryNext ==
    \/ RetryAttempt
    \/ RetrySleep
    \/ RetryExhausted

RetrySpec == RetryInit /\ [][RetryNext]_vars

\* ---------------------------------------------------------------- properties
\* The call is over: it returned a dict or let an exception escape.
Done == pc \in {"returned", "raised"}

\* docker run was started for the job.
Launched == container # "none"

\* The dict is the one built after the container ended within the timeout.
Completed ==
    "container_name" \in DOMAIN result \/ "test_results_json" \in DOMAIN result

\* Number of entries of the structured test list carried by the dict.
StructuredTotal ==
    IF "test_results_json" \in DOMAIN result THEN result.test_results_json.total ELSE 0

StructuredFailed ==
    IF "test_results_json" \in DOMAIN result THEN result.test_results_json.failed ELSE 0

TimeoutPcs == {"except_timeout", "java_except_timeout", "js_except_timeout"}

C2_TimeoutKillsThenReports ==
    [][(pc \in TimeoutPcs /\ exc = "TimeoutExpired") =>
          /\ kills' = Append(kills, container_name)
          /\ result' = TimeoutResult
          /\ result'.success = FALSE
          /\ result'.exit_code < 0]_vars

\* C3: when the wait on a launched container ended by an exception (timeout
\* or other), a kill of the job's container was attempted before the call
\* is over.
C3_KillAfterAnyWaitException ==
    (Done /\ Launched /\ ~Completed) => kills = <<container_name>>

\* C4: the call never lets an exception escape, and every failure is
\* returned as a dict with success false and a negative exit code.
C4_NeverRaises ==
    /\ pc # "raised"
    /\ (pc = "returned" /\ ~Completed) =>
            (result.success = FALSE /\ result.exit_code < 0)

\* C5: for a completed run, success is true exactly when the exit code is 0
\* and, if the structured result holds a test, it reports no failed test.
C5_SuccessIffExitZeroAndNoFailure ==
    (pc = "returned" /\ Completed) =>
        (result.success <=>
            (result.exit_code = 0 /\ (StructuredTotal > 0 => StructuredFailed = 0)))

\* C6: in the Java pipeline, when the surefire directory is absent after the
\* run, success is false and the structured result is one synthetic failing
\* test whose error is the non-empty stderr.
C6_NoSurefireDirMeansFailure ==
    (pc = "finally" /\ detected_language = "java" /\ Completed
        /\ SurefireDir \notin files) =>
        /\ result.success = FALSE
        /\ result.test_results_json.total = 1
        /\ result.test_results_json.failed = 1

\* C7: the dict returned for a run that ended with a non-zero exit code and
\* non-empty raw output carries a non-empty structured test list.
C7_FailedRunHasTests ==
    (pc = "returned" /\ Completed /\ result.exit_code # 0
        /\ (result.output # <<>> \/ result.errors # <<>>)) =>
        StructuredTotal > 0

\* C8: every returned dict has the same shape: success, exit code, raw
\* stdout and stderr, and a structured test list.
C8_UniformShape ==
    pc = "returned" =>
        {"success", "exit_code", "output", "errors", "test_results_json"}
            \subseteq DOMAIN result

\* C9 (as stated): a launched UNIT job without dependencies whose caller did
\* not ask for network access runs with networking disabled, in all three
\* pipelines.
C9_UnitJobsHaveNoNetwork ==
    (Launched /\ req.execution_mode = "unit" /\ ~req.allow_network
        /\ merged_requirements.is_none) =>
        docker_cmd.network = "none"

\* C9 (amended): the same in the Python and JavaScript/TypeScript pipelines;
\* the Java pipeline always runs with networking enabled.
C9_UnitJobsHaveNoNetworkExceptJava ==
    Launched =>
        IF detected_language = "java" THEN docker_cmd.network = "default"
        ELSE (req.execution_mode = "unit" /\ ~req.allow_network
                /\ merged_requirements.is_none) => docker_cmd.network = "none"

\* A UNIT Python job without requirements was launched without network.
C9_Witness ==
    /\ Launched
    /\ detected_language = "python"
    /\ docker_cmd.script = "pytest"
    /\ req.execution_mode = "unit"
    /\ ~req.allow_network
    /\ docker_cmd.network = "none"

\* C10: whenever an install step is required (pip install in the Python
\* pipeline, mvn in the Java pipeline) or the caller asks for network
\* access, the container runs with networking enabled.
C10_NetworkWhenRequested ==
    (Launched /\ (req.allow_network \/ ~merged_requirements.is_none
                    \/ detected_language = "java")) =>
        docker_cmd.network = "default"

\* Values of the `language` argument the engine has a pipeline for.
SupportedLanguages == {"python", "java", "javascript", "js", "typescript", "ts"}

\* C11: when the declared language is not a supported one, no container is
\* spawned for the request and the call returns a configuration-error dict
\* (success false, negative exit code).
C11_UnsupportedLanguageAborts ==
    (req.language \notin SupportedLanguages \cup {None}) =>
        /\ ~Launched
        /\ pc = "returned" => (result.success = FALSE /\ result.exit_code < 0)

\* C12: dependency resolution never aborts a Python job: the merge of the
\* user-declared and the inferred requirements raises no exception, whatever
\* the test code and the source bundle are.
C12_ResolutionNeverAborts == exc # "AttributeError"

\* C13: the rewritten test names `source` in its from-import or in its patch
\* target only when the module it named before is in the allow-list; every
\* other module name is still named after the rewriting.
C13_OnlyAllowListRepointed ==
    (call.fn = "_preprocess_python" /\ call.ret # <<>>) =>
        LET test == call.args[1]
            out == call.ret[1]
        IN  /\ (test.from_mod \notin _ALLOWED_REWRITE_MODULES) =>
                    out.from_mod = test.from_mod
            /\ (test.patch_mod \notin _ALLOWED_REWRITE_MODULES) =>
                    out.patch_mod = test.patch_mod

\* The executor types that name an image.
NamedExecutorTypes == {"python-basic", "python-web", "java-basic", "javascript-basic"}

\* C14: when the config carries an executor_type that names an image, the
\* container is launched with that image, whatever language was detected.
C14_OverrideAlwaysWins ==
    (Launched /\ req.executor_type \in NamedExecutorTypes) =>
        docker_cmd.image = mapping(req.executor_type)

\* The call of caller j has begun and has not returned.
InFlight(j) == jobs # NoJobs /\ jobs[j].pc \notin {"idle", "done"}

\* The directories a container can read and write.
VisibleDirs(c) == IF c.mount = "volume" THEN volume.dirs ELSE {c.mount}

\* C15: two calls that overlap in time have different working directories
\* and different container names, in both deployments, and the kill issued
\* by one call never ends the container of another.
C15_JobsNeverCollide ==
    jobs # NoJobs =>
        /\ \A j, k \in Callers :
            (j # k /\ InFlight(j) /\ InFlight(k)) =>
                /\ jobs[j].temp_dir # jobs[k].temp_dir
                /\ jobs[j].container_name # jobs[k].container_name
        /\ \A j \in Callers : jobs[j].killed \subseteq {j}

\* C16: the filesystem a job's container can read or write holds no other
\* job's working directory, in both deployments.
C16_ContainerSeesOwnDirOnly ==
    \A c \in daemon :
        \A j \in Callers :
            (j # c.owner /\ InFlight(j)) => jobs[j].temp_dir \notin VisibleDirs(c)

\* C17: the values of env_vars reach the container through --env-file, they
\* appear in no log message, and the .env file that holds them is gone once
\* the call is over.
C17_EnvValuesOnlyInEnvFile ==
    /\ (Launched /\ req.env_vars) => docker_cmd.env_file
    /\ EnvValueLogged \notin log
    /\ Done => ".env" \notin files

\* No two lines of a requirements text are equal ignoring case.
NoDuplicateEntries(text) ==
    \A i, j \in 1..Len(text.lines) :
        i # j => Lower(text.lines[i]) # Lower(text.lines[j])

\* C18: with M the merge of a user text and an inferred text, merging M with
\* M returns M unchanged, and M holds no two entries equal ignoring case.
C18_MergeIdempotentNoDuplicates ==
    (call.fn = "_merge_requirements" /\ Len(call.ret) = 2) =>
        /\ call.ret[2] = call.ret[1]
        /\ NoDuplicateEntries(call.ret[1].value)

\* The languages the heuristics of _detect_language yield when they are
\* applied in the stated order.
HeuristicLanguage(code) ==
    IF code.pubclass /\ code.javaimp THEN "java"
    ELSE IF code.jscalls THEN (IF code.ts THEN "typescript" ELSE "javascript")
    ELSE "python"

\* C19: with no declared language the detected language is java when the
\* code has a public class and a java/org import, else javascript
\* (typescript with superset markers) when it has a test-framework call,
\* else python.
C19_HeuristicOrder ==
    (req.language = None /\ detected_language # None) =>
        detected_language = HeuristicLanguage(req.code)

\* The steps of a pipeline that come before the files are written into the
\* working directory have not all been taken.
BeforeMaterialisation ==
    pc \in {"start", "detect", "py_prepare", "py_resolve", "java_prepare", "js_prepare"}

\* C20: the stages run in the order detection, rewriting, dependency
\* resolution, manifest synthesis, materialisation, execution, parsing,
\* cleanup: no file is in the working directory while a stage that precedes
\* materialisation is still to run, and the container is not started before
\* the files are written.
C20_StagesInOrder ==
    /\ BeforeMaterialisation => files = {}
    /\ Launched => files # {}

C22_FailedFrameworkNeverSucceeds ==
    (/\ call.fn = "npm test"
     /\ call.ret # <<>>
     /\ call.args[1] \in {"jest", "mocha"}
     /\ call.args[2].status # 0) =>
        call.ret[1].success = FALSE

\* The report of the output is echoed between the delimiter lines: a start
\* line, the report's line, an end line.
DelimitedReport(raw) ==
    \E i \in 1..(Len(raw) - 2) :
        raw[i] = "start" /\ raw[i + 1] = "json" /\ raw[i + 2] = "end"

\* C23: in the Jest pipeline, when the output holds a report of N per-test
\* records between the delimiter lines, the structured list has exactly N
\* test cases, the i-th taken from the i-th record (passed for a passed
\* record, failed otherwise; the record's duration, 0 when it has none),
\* also when an earlier line such as npm's echo of the command holds the
\* delimiter text.
C23_JestReportBecomesTests ==
    (/\ call.fn = "_build_js_test_results"
     /\ call.ret # <<>>
     /\ call.args[1] = "jest"
     /\ DelimitedReport(call.args[2])) =>
        LET report == call.args[3]
            tests == call.ret[1].tests
        IN  /\ Len(tests) = Len(report)
            /\ \A i \in 1..Len(report) :
                    /\ tests[i].status =
                           (IF report[i].status = "passed" THEN "passed" ELSE "failed")
                    /\ tests[i].duration >= 0
                    /\ tests[i].duration =
                           (IF report[i].duration = <<>> THEN 0 ELSE report[i].duration[1])

\* C24: every call of execute_tests_in_docker eventually returns (or
\* raises), the container run and the kill issued after a timeout being
\* bounded, also when docker kill does not respond.
C24_EveryCallReturns == <>Done

\* The modules that are local to a multi-file job: every source file of the
\* bundle by its module name, and every package directory that holds one.
PackageDirs(fname) == IF fname = "models/user.py" THEN {"models"} ELSE {}

LocalToJob(code) ==
    UNION {{Basename(code.bundle[i].fname)} \cup PackageDirs(code.bundle[i].fname) :
              i \in 1..Len(code.bundle)}

\* C25: in multi-file Python mode no module that is local to the job is a
\* line of the requirements handed to pip install.
C25_LocalModulesNeverInstalled ==
    (req.code.bundle # <<>> /\ ~merged_requirements.is_none) =>
        \A i \in 1..Len(merged_requirements.lines) :
            merged_requirements.lines[i] \notin LocalToJob(req.code)

\* The lines that begin, after leading whitespace, with a pass or a fail
\* glyph.
GlyphLines(raw) ==
    {i \in 1..Len(raw) : raw[i] \in {"pass", "fail", "ipass", "ifail"}}

\* C26: _parse_jasmine_text yields exactly one test case for every line
\* that begins, after leading whitespace, with a pass or a fail glyph; an
\* indented glyph line right after a failed test's line is a test case of
\* its own, not that failure's error detail.
C26_OneTestPerGlyphLine ==
    (call.fn = "_parse_jasmine_text" /\ call.ret # <<>>) =>
        Len(call.ret[1]) = Cardinality(GlyphLines(call.args[1]))

\* The modules of a list of imports, each once, in the order in which they
\* are first met.
RECURSIVE FirstDiscovered(_, _)
FirstDiscovered(imports, seen) ==
    IF imports = <<>> THEN <<>>
    ELSE IF Head(imports) \in seen THEN FirstDiscovered(Tail(imports), seen)
    ELSE <<Head(imports)>> \o FirstDiscovered(Tail(imports), seen \cup {Head(imports)})

\* C27: _auto_detect_pip_requirements returns the inferred packages in the
\* order in which their imports are first discovered in the test code, each
\* import name mapped through the import-name to package-name table, the
\* standard-library and the excluded names removed.
C27_DiscoveryOrderKept ==
    (/\ call.fn = "_auto_detect_pip_requirements"
     /\ call.ret # <<>>
     /\ call.args[1]) =>
        LET Wanted(mod) == mod \notin _STDLIB_MODULES /\ mod \notin call.args[3]
        IN  call.ret[1].lines =
                MapPip(SelectSeq(FirstDiscovered(call.args[2], {}), Wanted))

\* The events sent since the stream of client c opened.
SentSince(c) == SubSeq(tracker, streams[c].since + 1, Len(tracker))

\* C28: with two or more streams open for the same test_id, every event sent
\* is delivered to each open stream, and a stream that disconnects does not
\* stop later events from reaching the streams still open: an open stream
\* whose queue holds nothing more has received every event sent since it
\* opened.
C28_EveryOpenStreamGetsEveryEvent ==
    \A c \in Clients :
        (/\ streams[c].pc = "open"
         /\ \E o \in Clients \ {c} : streams[o].pc # "new"
         /\ event_queues[streams[c].event_queue] = <<>>) =>
            streams[c].received = SentSince(c)

\* Every request on the item was answered with 200.
AllPatchesCompleted ==
    \A r \in PatchRequests : patches[r].pc = "done" /\ patches[r].response = 200

\* C29: whatever the interleaving of the requests that report distinct files
\* of one item with status running, once all of them have completed the
\* item's tested_files holds every reported file, and the item is done if
\* every testable file of its file_list has been reported.
C29_NoReportedFileLost ==
    AllPatchesCompleted =>
        /\ \A r \in PatchRequests : tested_file(r) \in Range(row.tested_files)
        /\ (\A i \in 1..Len(row.file_list) :
                is_testable_file(row.file_list[i]) =>
                    \E r \in PatchRequests : tested_file(r) = row.file_list[i])
             => row.status = "done"

\* C30: a function wrapped by retry_with_backoff(max_attempts = n) is invoked
\* at most n times per call of the wrapper; the wrapper returns the first
\* successful result without a further invocation, re-raises the exception
\* of the n-th failed attempt, lets an exception outside the configured
\* types propagate at once, and never sleeps longer than max_delay.
C30_RetryContract ==
    retry.pc # "idle" =>
        LET n == retry.max_attempts
            calls == Len(retry.invocations)
        IN  /\ calls <= n
            /\ \A i \in 1..calls :
                   /\ retry.invocations[i] = "returns" =>
                          (i = calls /\ retry.pc = "returned" /\ retry.result = i)
                   /\ retry.invocations[i] = "raises_other" =>
                          (/\ i = calls
                           /\ retry.pc = "raised"
                           /\ retry.raised = ExceptionOf(i, FALSE))
                   /\ (retry.invocations[i] = "raises_listed" /\ i = n) =>
                          (retry.pc = "raised" /\ retry.raised = ExceptionOf(n, TRUE))
            /\ retry.pc = "returned" =>
                   (calls >= 1 /\ retry.invocations[calls] = "returns")
            /\ \A i \in 1..Len(retry.slept) : retry.slept[i] <= retry.max_delay

\* C30 witness: three attempts of three failed with a configured exception;
\* the wrapper slept twice, the second time for max_delay instead of the
\* doubled delay, and re-raised the third exception.
C30_Witness ==
    /\ retry.pc = "raised"
    /\ retry.max_attempts = 3
    /\ retry.invocations = <<"raises_listed", "raises_listed", "raises_listed">>
    /\ retry.raised = ExceptionOf(3, TRUE)
    /\ retry.slept = <<2, 3>>
    /\ retry.delay = 8

====
